---- MODULE Spec2Model ----
(***************************************************************************)
(* Workout Tracker API (backend/main.py, models.py, schemas.py,            *)
(* database.py): the four relations, the request handlers that read and    *)
(* write them, and the statistics computed from the records.               *)
(*                                                                         *)
(* Every handler runs in one database session.  A handler with one         *)
(* db.commit() is one transaction and is modelled as one step.  register   *)
(* looks the email up, commits the user, then commits the default          *)
(* exercises: three steps, so that other requests and failures can fall    *)
(* between them.                                                           *)
(*                                                                         *)
(* Record.weight and Record.volume are floats; the model keeps them as     *)
(* integer numerators over WeightDenominator.  Password hashes, tokens,    *)
(* created_at and memo (never written) are left out.                       *)
(***************************************************************************)
EXTENDS Integers, FiniteSets, Sequences, TLC

\* ---------------------------------------------------------------- bounds
\* users that register
MaxUsers == 2
\* rows (categories, exercises, records) the clients create after the
\* registrations
MaxRows == 2
\* weights are multiples of 1 / WeightDenominator
WeightDenominator == 2

\* ------------------------------------------------------------- constants
\* SQL NULL / Python None in an integer column (row ids start at 1).
NULL == 0
NumDefaultExercises == 6
HTTP_OK == 200
HTTP_BAD_REQUEST == 400
HTTP_NOT_FOUND == 404
HTTP_SERVER_ERROR == 500
\* the status of a register request that has not answered yet
PENDING == NULL

default_exercises ==
    << "BenchPress", "Squat", "Deadlift", "PullUp", "ShoulderPress", "BarbellRow" >>

\* ---------------------------------------------------------------- inputs
Procs == {"p1", "p2"}
Emails == {"a@x", "b@x"}
CategoryNames == {"Chest"}
ExerciseNames == {"Curl"}
Dates == {"2024-01-01", "2024-01-02"}
\* ids a client sends: every id a category or a record can get,
CategoryIdInputs == 1..MaxRows
RecordIdInputs == 1..MaxRows
\* and for exercises the first default exercise of the first user and the
\* first exercise created after two registrations.
ExerciseIdInputs == {1, 2 * NumDefaultExercises + 1}
\* weight (numerator over WeightDenominator), reps, sets of a RecordCreate
RecordInputs ==
    { [weight |-> 3, reps |-> 2, sets |-> 3],
      [weight |-> -5, reps |-> 3, sets |-> 1],
      [weight |-> 0, reps |-> -1, sets |-> 0] }

VARIABLES
    users,              \* rows of "users"
    categories,         \* rows of "categories"
    exercises,          \* rows of "exercises"
    records,            \* rows of "workout_records"
    next_user_id,       \* the autoincrement counters of the four tables
    next_category_id,
    next_exercise_id,
    next_record_id,
    reg,                \* per server process: the register request in flight
    response            \* the last handler step: request and answer

vars == << users, categories, exercises, records, next_user_id,
           next_category_id, next_exercise_id, next_record_id, reg, response >>

store == << users, categories, exercises, records >>
counters == << next_user_id, next_category_id, next_exercise_id, next_record_id >>

NoStats == [total_workouts |-> 0, total_volume |-> 0, max_weight |-> 0]

Response(op, user, arg, email, st, body) ==
    [op |-> op, user |-> user, arg |-> arg, email |-> email, status |-> st,
     body |-> body]

Idle == [pc |-> "idle", email |-> "", uid |-> NULL]

\* ------------------------------------------------------------------ Init
Init ==
    /\ users = {}
    /\ categories = {}
    /\ exercises = {}
    /\ records = {}
    /\ next_user_id = 1
    /\ next_category_id = 1
    /\ next_exercise_id = 1
    /\ next_record_id = 1
    /\ reg = [p \in Procs |-> Idle]
    /\ response = Response("start", NULL, NULL, "", HTTP_OK, NoStats)

\* get_current_user resolves the bearer token to a row of users.
CurrentUsers == {u.id : u \in users}

\* rows created so far by create_category, create_record and
\* create_exercise (register inserts exercises in sixes, so the remainder
\* counts the created ones while they are fewer than six)
RowsCreated ==
    (next_category_id - 1) + (next_record_id - 1)
      + ((next_exercise_id - 1) % NumDefaultExercises)

\* ============================================================== register
\* db.query(User).filter(User.email == email)
UsersByEmail(email) == {u \in users : u.email = email}

\* the unique index left out of the table
EmailNotChecked(email) == TRUE

\* users.email is UNIQUE: the INSERT of a second row with the email fails.
EmailUnique(email) == UsersByEmail(email) = {}

\* the default exercises of a new user, uncategorized, ids from first_id on
SeedExercises(uid, first_id) ==
    { [id |-> first_id + i - 1, name |-> default_exercises[i],
       category_id |-> NULL, user_id |-> uid] : i \in 1..NumDefaultExercises }

\* main.py 48-53: the lookup; 400 when the email is in use
RegisterQuery(p, email) ==
    /\ reg[p].pc = "idle"
    /\ IF UsersByEmail(email) # {}
       THEN /\ response' = Response("register_query", NULL, NULL, email, HTTP_BAD_REQUEST, NoStats)
            /\ reg' = reg
       ELSE /\ response' = Response("register_query", NULL, NULL, email, PENDING, NoStats)
            /\ reg' = [reg EXCEPT ![p] = [pc |-> "checked", email |-> email, uid |-> NULL]]
    /\ UNCHANGED << store, counters >>

\* main.py 56-60: INSERT the user and commit; the unique index on email
\* fails the commit (IntegrityError, not caught: 500) when a concurrent
\* register committed the email after the lookup.
RegisterCommitUser(p) ==
    /\ reg[p].pc = "checked"
    /\ IF EmailUnique(reg[p].email)
       THEN /\ next_user_id <= MaxUsers
            /\ users' = users \cup {[id |-> next_user_id, email |-> reg[p].email]}
            /\ next_user_id' = next_user_id + 1
            /\ reg' = [reg EXCEPT ![p].pc = "seeding", ![p].uid = next_user_id]
            /\ response' = Response("register_commit", next_user_id, NULL, reg[p].email,
                                    PENDING, NoStats)
       ELSE /\ UNCHANGED << users, next_user_id >>
            /\ reg' = [reg EXCEPT ![p] = Idle]
            /\ response' = Response("register_commit", NULL, NULL, reg[p].email,
                                    HTTP_SERVER_ERROR, NoStats)
    /\ UNCHANGED << categories, exercises, records,
                    next_category_id, next_exercise_id, next_record_id >>

\* main.py 62-72: INSERT the six default exercises, second commit, answer
RegisterSeed(p) ==
    /\ reg[p].pc = "seeding"
    /\ exercises' = exercises \cup SeedExercises(reg[p].uid, next_exercise_id)
    /\ next_exercise_id' = next_exercise_id + NumDefaultExercises
    /\ reg' = [reg EXCEPT ![p] = Idle]
    /\ response' = Response("register_seed", reg[p].uid, NULL, reg[p].email, HTTP_OK, NoStats)
    /\ UNCHANGED << users, categories, records, next_user_id,
                    next_category_id, next_record_id >>

\* The request dies inside register (connection lost, process killed):
\* get_db closes the session, what was not committed is rolled back, what
\* was committed stays.
RegisterAbort(p) ==
    /\ reg[p].pc # "idle"
    /\ reg' = [reg EXCEPT ![p] = Idle]
    /\ response' = Response("register_abort", reg[p].uid, NULL, reg[p].email,
                            HTTP_SERVER_ERROR, NoStats)
    /\ UNCHANGED << store, counters >>

\* ============================================================ categories
\* filter(Category.id == category_id, Category.user_id == current_user.id)
OwnCategory(u, category_id) ==
    {c \in categories : c.id = category_id /\ c.user_id = u}

\* db.query(Category).filter(Category.user_id == current_user.id).all()
listCategories(u) == {c \in categories : c.user_id = u}

\* main.py 100-106
GetCategories(u) ==
    /\ u \in CurrentUsers
    /\ response' = Response("get_categories", u, NULL, "", HTTP_OK, NoStats)
    /\ UNCHANGED << store, counters, reg >>

\* main.py 109-120
CreateCategory(u, name) ==
    /\ u \in CurrentUsers
    /\ RowsCreated < MaxRows
    /\ categories' = categories \cup
           {[id |-> next_category_id, name |-> name, user_id |-> u]}
    /\ next_category_id' = next_category_id + 1
    /\ response' = Response("create_category", u, next_category_id, "", HTTP_OK, NoStats)
    /\ UNCHANGED << users, exercises, records, next_user_id,
                    next_exercise_id, next_record_id, reg >>

\* the category deleted without the unlink
NotUnlinked(category_id) == exercises

\* main.py 139-141: every exercise row with this category_id, of any user,
\* gets category_id = None (Category.exercises does the same at the flush
\* of db.delete(category)).
Unlinked(category_id) ==
    { IF e.category_id = category_id THEN [e EXCEPT !.category_id = NULL] ELSE e :
      e \in exercises }

\* main.py 123-145: one commit for the unlink and the delete
DeleteCategory(u, category_id) ==
    /\ u \in CurrentUsers
    /\ IF OwnCategory(u, category_id) = {}
       THEN /\ response' = Response("delete_category", u, category_id, "",
                                    HTTP_NOT_FOUND, NoStats)
            /\ UNCHANGED << categories, exercises >>
       ELSE /\ exercises' = Unlinked(category_id)
            /\ categories' = categories \ OwnCategory(u, category_id)
            /\ response' = Response("delete_category", u, category_id, "",
                                    HTTP_OK, NoStats)
    /\ UNCHANGED << users, records, counters, reg >>

\* delete_category dies before db.commit() (connection lost): the session
\* is closed by get_db and nothing of the transaction is applied.
DeleteCategoryAbort(u, category_id) ==
    /\ u \in CurrentUsers
    /\ OwnCategory(u, category_id) # {}
    /\ response' = Response("delete_category", u, category_id, "",
                            HTTP_SERVER_ERROR, NoStats)
    /\ UNCHANGED << store, counters, reg >>

\* ============================================================= exercises
\* category_id of an ExerciseCreate or ExerciseUpdate: None or the id of a
\* category in the table, of any user.  (exercises.category_id REFERENCES
\* categories.id; SQLite as configured stores any other id too, a database
\* that enforces foreign keys fails the commit.  Such ids are not sent.)
CategoryRefInputs == {NULL} \cup {c.id : c \in categories}

\* filter(Exercise.id == exercise_id, Exercise.user_id == current_user.id)
OwnExercise(u, exercise_id) ==
    {e \in exercises : e.id = exercise_id /\ e.user_id = u}

\* db.query(Exercise).filter(Exercise.user_id == current_user.id).all()
listExercises(u) == {e \in exercises : e.user_id = u}

\* main.py 149-155
GetExercises(u) ==
    /\ u \in CurrentUsers
    /\ response' = Response("get_exercises", u, NULL, "", HTTP_OK, NoStats)
    /\ UNCHANGED << store, counters, reg >>

\* main.py 158-173: category_id is stored as sent
CreateExercise(u, name, category_id) ==
    /\ u \in CurrentUsers
    /\ RowsCreated < MaxRows
    /\ exercises' = exercises \cup
           {[id |-> next_exercise_id, name |-> name,
             category_id |-> category_id, user_id |-> u]}
    /\ next_exercise_id' = next_exercise_id + 1
    /\ response' = Response("create_exercise", u, next_exercise_id, "", HTTP_OK, NoStats)
    /\ UNCHANGED << users, categories, records, next_user_id,
                    next_category_id, next_record_id, reg >>

\* main.py 176-195
UpdateExercise(u, exercise_id, category_id) ==
    /\ u \in CurrentUsers
    /\ IF OwnExercise(u, exercise_id) = {}
       THEN /\ response' = Response("update_exercise", u, exercise_id, "",
                                    HTTP_NOT_FOUND, NoStats)
            /\ UNCHANGED exercises
       ELSE /\ exercises' =
                  { IF e \in OwnExercise(u, exercise_id)
                    THEN [e EXCEPT !.category_id = category_id] ELSE e :
                    e \in exercises }
            /\ response' = Response("update_exercise", u, exercise_id, "",
                                    HTTP_OK, NoStats)
    /\ UNCHANGED << users, categories, records, counters, reg >>

\* models.py 41: Exercise.records has no delete cascade, so the flush of
\* db.delete(exercise) sets exercise_id = NULL in the records of the exercise.
Orphaned(exercise_id) ==
    { IF r.exercise_id = exercise_id THEN [r EXCEPT !.exercise_id = NULL] ELSE r :
      r \in records }

\* main.py 198-215
DeleteExercise(u, exercise_id) ==
    /\ u \in CurrentUsers
    /\ IF OwnExercise(u, exercise_id) = {}
       THEN /\ response' = Response("delete_exercise", u, exercise_id, "",
                                    HTTP_NOT_FOUND, NoStats)
            /\ UNCHANGED << exercises, records >>
       ELSE /\ exercises' = exercises \ OwnExercise(u, exercise_id)
            /\ records' = Orphaned(exercise_id)
            /\ response' = Response("delete_exercise", u, exercise_id, "",
                                    HTTP_OK, NoStats)
    /\ UNCHANGED << users, categories, counters, reg >>

\* =============================================================== records
\* the record looked up by id alone
AnyRecord(u, record_id) == {r \in records : r.id = record_id}

\* filter(Record.id == record_id, Record.user_id == current_user.id)
OwnRecord(u, record_id) ==
    {r \in records : r.id = record_id /\ r.user_id = u}

\* db.query(Record).filter(Record.user_id == current_user.id).all()
listRecords(u) == {r \in records : r.user_id = u}

\* schemas.py 71-79: RecordResponse.exercise_id is an int, None does not
\* validate and the response fails.
RecordResponseValid(r) == r.exercise_id # NULL

\* main.py 219-225
GetRecords(u) ==
    /\ u \in CurrentUsers
    /\ response' = Response("get_records", u, NULL, "",
                            IF \A r \in listRecords(u) : RecordResponseValid(r)
                            THEN HTTP_OK ELSE HTTP_SERVER_ERROR,
                            NoStats)
    /\ UNCHANGED << store, counters, reg >>

\* schemas.py 63-68: RecordCreate declares types and defaults only, no
\* bounds: every weight, reps and sets of the right type validates.
RecordCreateValid(in) == in.weight \in Int /\ in.reps \in Int /\ in.sets \in Int

\* the volume without the sets
VolumeNoSets(weight, reps, sets) == weight * reps

\* main.py 244
Volume(weight, reps, sets) == weight * reps * sets

\* main.py 246-255
NewRecord(id, u, date, ex, in) ==
    [id |-> id, date |-> date, exercise_id |-> ex.id, exercise_name |-> ex.name,
     weight |-> in.weight, reps |-> in.reps, sets |-> in.sets,
     volume |-> Volume(in.weight, in.reps, in.sets), user_id |-> u]

\* main.py 228-259
CreateRecord(u, date, exercise_id, in) ==
    /\ u \in CurrentUsers
    /\ RowsCreated < MaxRows
    /\ RecordCreateValid(in)
    /\ IF OwnExercise(u, exercise_id) = {}
       THEN /\ response' = Response("create_record", u, exercise_id, "",
                                    HTTP_NOT_FOUND, NoStats)
            /\ UNCHANGED << records, next_record_id >>
       ELSE /\ records' = records \cup
                  { NewRecord(next_record_id, u, date, ex, in) :
                    ex \in OwnExercise(u, exercise_id) }
            /\ next_record_id' = next_record_id + 1
            /\ response' = Response("create_record", u, exercise_id, "",
                                    HTTP_OK, NoStats)
    /\ UNCHANGED << users, categories, exercises, next_user_id,
                    next_category_id, next_exercise_id, reg >>

\* main.py 262-279
DeleteRecord(u, record_id) ==
    /\ u \in CurrentUsers
    /\ IF OwnRecord(u, record_id) = {}
       THEN /\ response' = Response("delete_record", u, record_id, "",
                                    HTTP_NOT_FOUND, NoStats)
            /\ UNCHANGED records
       ELSE /\ records' = records \ OwnRecord(u, record_id)
            /\ response' = Response("delete_record", u, record_id, "",
                                    HTTP_OK, NoStats)
    /\ UNCHANGED << users, categories, exercises, counters, reg >>

\* ================================================================= stats
\* rounding down instead of toward zero
IntOfFloor(n, d) == n \div d

\* int(x) of a float x = n / d: truncation toward zero
IntOf(n, d) == IF n >= 0 THEN n \div d ELSE -((-n) \div d)

\* main.py 291: set(r.date for r in records)
unique_dates(rs) == {r.date : r \in rs}

\* main.py 292: sum(r.volume or 0 for r in records)
RECURSIVE total_volume(_)
total_volume(rs) ==
    IF rs = {} THEN 0
    ELSE LET r == CHOOSE x \in rs : TRUE
         IN  r.volume + total_volume(rs \ {r})

\* main.py 293: max((r.weight or 0 for r in records), default=0)
RECURSIVE max_weight(_)
max_weight(rs) ==
    IF rs = {} THEN 0
    ELSE LET r == CHOOSE x \in rs : TRUE
             rest == rs \ {r}
         IN  IF rest = {} \/ r.weight >= max_weight(rest)
             THEN r.weight ELSE max_weight(rest)

\* main.py 295-299
Stats(rs) ==
    [total_workouts |-> Cardinality(unique_dates(rs)),
     total_volume |-> IntOf(total_volume(rs), WeightDenominator),
     max_weight |-> max_weight(rs)]

\* main.py 283-299
GetStats(u) ==
    /\ u \in CurrentUsers
    /\ response' = Response("get_stats", u, NULL, "", HTTP_OK, Stats(listRecords(u)))
    /\ UNCHANGED << store, counters, reg >>

\* ================================================================== Next
NextRegister ==
    \/ \E p \in Procs, email \in Emails : RegisterQuery(p, email)
    \/ \E p \in Procs : RegisterCommitUser(p)
    \/ \E p \in Procs : RegisterSeed(p)
    \/ \E p \in Procs : RegisterAbort(p)

NextDomain ==
    \/ \E u \in CurrentUsers : GetCategories(u)
    \/ \E u \in CurrentUsers, name \in CategoryNames : CreateCategory(u, name)
    \/ \E u \in CurrentUsers, id \in CategoryIdInputs : DeleteCategory(u, id)
    \/ \E u \in CurrentUsers, id \in CategoryIdInputs : DeleteCategoryAbort(u, id)
    \/ \E u \in CurrentUsers : GetExercises(u)
    \/ \E u \in CurrentUsers, name \in ExerciseNames,
          cid \in CategoryRefInputs : CreateExercise(u, name, cid)
    \/ \E u \in CurrentUsers, id \in ExerciseIdInputs,
          cid \in CategoryRefInputs : UpdateExercise(u, id, cid)
    \/ \E u \in CurrentUsers, id \in ExerciseIdInputs : DeleteExercise(u, id)
    \/ \E u \in CurrentUsers : GetRecords(u)
    \/ \E u \in CurrentUsers, date \in Dates, id \in ExerciseIdInputs,
          in \in RecordInputs : CreateRecord(u, date, id, in)
    \/ \E u \in CurrentUsers, id \in RecordIdInputs : DeleteRecord(u, id)
    \/ \E u \in CurrentUsers : GetStats(u)

Next == NextRegister \/ NextDomain

Spec == Init /\ [][Next]_vars

\* The registrations alone, from the empty database.
SpecRegister == Init /\ [][NextRegister]_vars

\* The database after two registrations that ran one after the other
\* (a state of SpecRegister), and the handlers behind the bearer token.
InitRegistered ==
    /\ users = {[id |-> 1, email |-> "a@x"], [id |-> 2, email |-> "b@x"]}
    /\ categories = {}
    /\ exercises = SeedExercises(1, 1) \cup SeedExercises(2, NumDefaultExercises + 1)
    /\ records = {}
    /\ next_user_id = 3
    /\ next_category_id = 1
    /\ next_exercise_id = 2 * NumDefaultExercises + 1
    /\ next_record_id = 1
    /\ reg = [p \in Procs |-> Idle]
    /\ response = Response("register_seed", 2, NULL, "b@x", HTTP_OK, NoStats)

SpecDomain == InitRegistered /\ [][NextDomain]_vars

\* ================================================================ claims

\* C1: a request of user U1 that names a category, exercise or record of
\* another user U2 (delete_category, update_exercise, delete_exercise,
\* delete_record, create_record with it as exercise_id) is answered 404, as
\* for an id that does not exist, and changes no row.
C1_Target(op) ==
    IF op = "delete_category" THEN categories
    ELSE IF op \in {"update_exercise", "delete_exercise", "create_record"} THEN exercises
    ELSE IF op = "delete_record" THEN records
    ELSE {}

C1_ForeignIdNotFound ==
    [][LET r == response'
       IN  r.op \in {"delete_category", "update_exercise", "delete_exercise",
                     "delete_record", "create_record"}
           => /\ (\E x \in C1_Target(r.op) : x.id = r.arg /\ x.user_id # r.user)
                    => (r.status = HTTP_NOT_FOUND /\ store' = store /\ counters' = counters)
              /\ (\A x \in C1_Target(r.op) : x.id # r.arg)
                    => (r.status = HTTP_NOT_FOUND /\ store' = store /\ counters' = counters)
      ]_vars

\* a delete_record of another user's record has been answered 404
C1_Witness ==
    /\ response.op = "delete_record"
    /\ response.status = HTTP_NOT_FOUND
    /\ \E r \in records : r.id = response.arg /\ r.user_id # response.user

\* C2: a request of user U leaves every category, exercise and record of
\* every other user exactly as it was.
C2_Others(rows, u) == {x \in rows : x.user_id # u}

C2_OtherUsersRowsUntouched ==
    [][LET u == response'.user
       IN  /\ C2_Others(categories', u) = C2_Others(categories, u)
           /\ C2_Others(exercises', u) = C2_Others(exercises, u)
           /\ C2_Others(records', u) = C2_Others(records, u)
      ]_vars

\* C3: a successful delete_category is one step after which the category
\* is gone from the owner's list, every exercise that had its id as
\* category_id has NULL and is otherwise the same row, and nothing else
\* changed; a delete_category that fails (404, or dies before the commit)
\* changes nothing.
C3_DeleteCategoryAtomic ==
    [][LET r == response'
       IN  r.op = "delete_category"
           => IF r.status = HTTP_OK
              THEN /\ \E c \in listCategories(r.user) : c.id = r.arg
                   /\ categories' = {c \in categories : c.id # r.arg}
                   /\ \A c \in categories' : c.id # r.arg
                   /\ \A e \in exercises :
                        IF e.category_id = r.arg
                        THEN /\ [e EXCEPT !.category_id = NULL] \in exercises'
                             /\ e \notin exercises'
                        ELSE e \in exercises'
                   /\ Cardinality(exercises') = Cardinality(exercises)
                   /\ \A e \in exercises' : e.category_id # r.arg
                   /\ records' = records /\ users' = users
              ELSE store' = store
      ]_vars

\* a delete_category has succeeded and left an exercise of the category's
\* owner without category
C3_Witness ==
    /\ response.op = "delete_category"
    /\ response.status = HTTP_OK
    /\ \A c \in categories : c.id # response.arg
    /\ \E e \in exercises : e.name \in ExerciseNames /\ e.category_id = NULL

\* C4: a user row exists only together with its six default exercises
\* (uncategorized, of that user), in every state of the database.
C4_UserIffDefaults ==
    /\ \A u \in users :
         Cardinality({e \in exercises : e.user_id = u.id /\ e.category_id = NULL})
            = NumDefaultExercises
    /\ \A e \in exercises : \E u \in users : u.id = e.user_id

\* C5: no two user rows have the same email, under any interleaving of
\* register requests; a register whose email is held by a user is answered
\* 400 and inserts nothing.
C5_UniqueEmail ==
    [][/\ \A u1, u2 \in users' : u1.email = u2.email => u1 = u2
       /\ LET r == response'
          IN  (r.op = "register_query" /\ \E u \in users : u.email = r.email)
              => (r.status = HTTP_BAD_REQUEST /\ store' = store /\ reg' = reg)
      ]_vars

\* a register has been answered 400 for the email of a user; and a second
\* register for the same email is still in flight
C5_Witness ==
    /\ response.op = "register_query"
    /\ response.status = HTTP_BAD_REQUEST
    /\ \E u \in users : u.email = response.email
    /\ \E p \in Procs : reg[p].pc = "checked" /\ reg[p].email = response.email

\* C6: every record has volume = weight * reps * sets and the name its
\* exercise had when it was created; no step changes volume, exercise_name,
\* weight, reps, sets or date of a record that stays.
C6_RecordSnapshot ==
    [][/\ \A r \in records' : r.volume = r.weight * r.reps * r.sets
       /\ \A r \in records, q \in records' :
            r.id = q.id
            => /\ q.volume = r.volume /\ q.exercise_name = r.exercise_name
               /\ q.weight = r.weight /\ q.reps = r.reps /\ q.sets = r.sets
               /\ q.date = r.date /\ q.user_id = r.user_id
       /\ \A q \in records' :
            (\A r \in records : r.id # q.id)
            => /\ response'.op = "create_record"
               /\ \E e \in exercises :
                    /\ e.id = q.exercise_id /\ e.user_id = q.user_id
                    /\ e.name = q.exercise_name
      ]_vars

\* the exercise of a record has been deleted and the record is still there
C6_Witness ==
    /\ response.op = "delete_exercise"
    /\ response.status = HTTP_OK
    /\ \E r \in records : r.exercise_id = NULL /\ r.sets # 1 /\ r.volume # 0

\* C7: get_stats answers the number of distinct dates, the sum of the
\* volumes truncated toward zero and the greatest weight of the records of
\* the user, and 0 for all three without records.
C7_Sum(rs, n) ==
    LET vol[i \in 0..MaxRows] ==
          IF i = 0 THEN 0
          ELSE vol[i - 1]
                 + (IF \E r \in rs : r.id = i
                    THEN (CHOOSE r \in rs : r.id = i).volume ELSE 0)
    IN  vol[n]

C7_Truncated(t, n, d) ==
    IF n >= 0 THEN t * d <= n /\ n < (t + 1) * d
    ELSE (t - 1) * d < n /\ n <= t * d

C7_Stats ==
    response.op = "get_stats"
    => LET rs == {r \in records : r.user_id = response.user}
           b == response.body
       IN  /\ response.status = HTTP_OK
           /\ b.total_workouts = Cardinality({d \in Dates : \E r \in rs : r.date = d})
           /\ C7_Truncated(b.total_volume, C7_Sum(rs, MaxRows), WeightDenominator)
           /\ rs = {} => b = NoStats
           /\ rs # {} => /\ \E r \in rs : r.weight = b.max_weight
                         /\ \A r \in rs : r.weight <= b.max_weight

\* get_stats has answered for a user with two records of one date, one of
\* them of negative weight, whose volumes add up to a fraction
C7_Witness ==
    /\ response.op = "get_stats"
    /\ LET rs == {r \in records : r.user_id = response.user}
       IN  /\ Cardinality(rs) = 2
           /\ response.body.total_workouts = 1
           /\ \E r \in rs : r.weight < 0
           /\ C7_Sum(rs, MaxRows) % WeightDenominator # 0

\* C8: a successful delete_exercise removes the exercise row and nothing
\* else: every record stays as it was, exercise_id included.
C8_RecordsKeepExerciseId ==
    [][LET r == response'
       IN  (r.op = "delete_exercise" /\ r.status = HTTP_OK)
           => /\ exercises' = {e \in exercises : e.id # r.arg}
              /\ records' = records
      ]_vars

\* C9: the category_id of an exercise is NULL or the id of a category of
\* the same user.
C9_CategoryOfSameUser ==
    \A e \in exercises :
       e.category_id # NULL
       => \E c \in categories : c.id = e.category_id /\ c.user_id = e.user_id

\* C10: every record has weight >= 0, reps >= 0 and sets >= 1, hence
\* volume >= 0.
C10_RecordBounds ==
    \A r \in records : r.weight >= 0 /\ r.reps >= 0 /\ r.sets >= 1 /\ r.volume >= 0

====
